---- MODULE Spec2Model ----
(***************************************************************************)
(* State-machine model of src/algorithms/offline/pbrl.py: the trajectory   *)
(* sampler, the preference-corpus builder with its file cache, the         *)
(* preference labeler, the feature assembly of the latent reward trainer   *)
(* and the training loop with checkpointing and early stopping.            *)
(*                                                                         *)
(* Arrays are functions over 0..n-1, as in the source (0-based indices).   *)
(***************************************************************************)
EXTENDS Integers, Sequences, FiniteSets, TLC

\* ------------------------------------------------------------------ bounds
MaxN == 4
MaxCorpusN == 3
MaxBuildNumT == 1
MaxNumT == 2
MaxReward == 1
MaxLoss == 2
MaxPatience == 2
MaxEpochs == 200

\* ----------------------------------------------------------- array helpers
Size(a) == Cardinality(DOMAIN a)

Min(a, b) == IF a < b THEN a ELSE b

Max(a, b) == IF a < b THEN b ELSE a

\* a[lo:hi] of numpy: the bounds are clipped to the array
Slice(a, lo, hi) ==
    LET l == Min(Max(lo, 0), Size(a))
        h == Min(Max(hi, l), Size(a))
    IN [k \in 0..(h - l - 1) |-> a[l + k]]

\* np.arange(lo, hi)
Arange(lo, hi) == [k \in 0..(hi - lo - 1) |-> lo + k]

\* np.any over a 1-D boolean array
NpAny(a) == \E k \in DOMAIN a : a[k]

RECURSIVE SumUpTo(_, _)
SumUpTo(a, n) == IF n = 0 THEN 0 ELSE a[n - 1] + SumUpTo(a, n - 1)

\* np.sum over a 1-D array
NpSum(a) == SumUpTo(a, Size(a))

\* np.concatenate([a, b]) of two 1-D arrays
Concat(a, b) ==
    [k \in 0..(Size(a) + Size(b) - 1) |->
        IF k < Size(a) THEN a[k] ELSE b[k - Size(a)]]

\* ------------------------------------------------------------------- state
VARIABLES
    dataset,    \* the transition dataset: [terminals, rewards], each over 0..N-1
    len_t,      \* the window length of the running call
    s_pc,       \* get_random_trajectory_reward: "idle", "while", "redraw", "returned"
    start,      \* the sampler's current start index
    traj,       \* the sampler's returned index window
    reward,     \* the sampler's returned summed reward
    storage,    \* the files that exist: file name |-> saved corpus
    g_pc,       \* generate_pbrl_dataset: "idle", "loop", "t1", "t2", "returned"
    caller,     \* who called generate_pbrl_dataset: "user" or "evaluate"
    num_t,      \* the num_t argument of the running call
    path,       \* the pbrl_dataset_file_path argument of the running call
    i,          \* the loop index of line 28
    t1s, t2s, ps,   \* the arrays being filled
    t1, r1,     \* the first trajectory of the pair being drawn
    ret,        \* the tuple the call returned
    loaded,     \* whether the call returned from the load branch (line 23)
    prev,       \* the call before the running one: its path, branch and result
    l_pc,       \* the consumer of the corpus: "idle", "labelled", "featured"
    pbrl_dataset,       \* the corpus (t1s, t2s, ps) handed to the consumer
    sampled,    \* the pair indices drawn with replacement (lines 51, 103)
    mus,        \* the Bernoulli outcomes drawn from ps[sampled] (lines 55, 115)
    sampled_dataset,    \* what label_by_trajectory_reward returned
    latent,     \* what make_latent_reward_dataset returned: [X, mus, indices]
    t_pc,       \* train_latent: "idle", "loop", "done"
    ckpt,       \* the file at model_file_path: NoCkpt or [epoch, model_state_dict]
    n_epochs,   \* the n_epochs argument of the running call
    patience,   \* the patience argument of the running call
    epoch,      \* the loop variable of line 136
    best_loss,  \* line 132
    current_patience,   \* line 133
    total_loss, \* line 145, at the epochs where it is read
    model,      \* the parameters, as the number of optimizer steps behind them
    grad_steps, \* the optimizer steps of the running call
    last_improve    \* the 1-based epoch of the running call's last checkpoint, or 0

samplerVars == <<s_pc, start, traj, reward>>

buildVars ==
    <<storage, g_pc, caller, num_t, path, i, t1s, t2s, ps, t1, r1, ret, loaded,
      prev>>

labelVars == <<l_pc, pbrl_dataset, sampled, mus, sampled_dataset, latent>>

trainVars ==
    <<t_pc, ckpt, n_epochs, patience, epoch, best_loss, current_patience,
      total_loss, model, grad_steps, last_improve>>

vars == <<dataset, len_t, samplerVars, buildVars, labelVars, trainVars>>

N == Size(dataset.terminals)

\* The datasets the model draws its input from: N transitions, any placement
\* of terminal flags, small integer rewards.
Datasets ==
    UNION {[terminals : [0..(n - 1) -> BOOLEAN],
            rewards : [0..(n - 1) -> 0..MaxReward]] : n \in 2..MaxN}

\* The datasets whose rewards grow with the index: rewards[k] = k.
IndexRewardDatasets ==
    UNION {[terminals : [0..(n - 1) -> BOOLEAN],
            rewards : {[k \in 0..(n - 1) |-> k]}] : n \in 2..MaxCorpusN}

\* len_t < N, the precondition of np.random.randint(0, N - len_t)
LenTs == 1..(N - 1)

\* --------------------------------------------- get_random_trajectory_reward
\* np.random.randint(0, N - len_t): the half-open range [0, N - len_t)
StartRange(n, l) == 0..(n - l - 1)

\* a loop test that looks at the first index of the window only
WindowHasTerminalFirstOnly(s) == dataset.terminals[s]

\* the loop test of line 43: a terminal flag inside [start, start + len_t)
WindowHasTerminal(s) == NpAny(Slice(dataset.terminals, s, s + len_t))

\* lines 41-42: the first draw
SamplerBegin(l) ==
    /\ start' \in StartRange(N, l)
    /\ s_pc' = "while"
    /\ UNCHANGED <<traj, reward>>

get_random_trajectory_reward ==
    /\ s_pc = "idle"
    /\ SamplerBegin(len_t)
    /\ UNCHANGED <<dataset, len_t, buildVars, labelVars, trainVars>>

\* line 43, condition true: the window is rejected
sampler_reject ==
    /\ s_pc = "while"
    /\ WindowHasTerminal(start)
    /\ s_pc' = "redraw"
    /\ UNCHANGED <<dataset, len_t, start, traj, reward, buildVars, labelVars, trainVars>>

\* line 44: draw again
sampler_redraw(s) ==
    /\ s_pc = "redraw"
    /\ s \in StartRange(N, len_t)
    /\ start' = s
    /\ s_pc' = "while"
    /\ UNCHANGED <<dataset, len_t, traj, reward, buildVars, labelVars, trainVars>>

\* lines 45-47: the window is accepted and returned
sampler_return ==
    /\ s_pc = "while"
    /\ ~WindowHasTerminal(start)
    /\ traj' = Arange(start, start + len_t)
    /\ reward' = NpSum(Slice(dataset.rewards, start, start + len_t))
    /\ s_pc' = "returned"
    /\ UNCHANGED <<dataset, len_t, start, buildVars, labelVars, trainVars>>

SamplerStep ==
    \/ sampler_reject
    \/ \E s \in 0..(MaxN - 1) : sampler_redraw(s)
    \/ sampler_return

\* ---------------------------------------------------- the file system
\* A path is a sequence of name parts; the suffix ".npz" is one part.
NpzSuffix == ".npz"

NoPath == <<>>

EndsWithNpz(p) == Len(p) > 0 /\ p[Len(p)] = NpzSuffix

\* The file np.savez(p, ...) writes: numpy appends ".npz" to a path that
\* does not end with it.
SavezFileName(p) == IF EndsWithNpz(p) THEN p ELSE Append(p, NpzSuffix)

\* os.path.exists(p)
PathExists(p) == p \in DOMAIN storage

\* np.savez(p, t1s=..., t2s=..., ps=...), line 36
NpSavez(p, corpus) ==
    [f \in DOMAIN storage \cup {SavezFileName(p)} |->
        IF f = SavezFileName(p) THEN corpus ELSE storage[f]]

\* np.load(p) and the three reads of line 23
NpLoad(p) == [t1s |-> storage[p].t1s, t2s |-> storage[p].t2s, ps |-> storage[p].ps]

\* the cache paths a caller passes: none, a bare name, a name ending ".npz"
CachePaths == {NoPath, <<"corpus">>, <<"corpus", NpzSuffix>>}

BuildNumTs == 1..MaxBuildNumT

\* ---------------------------------------------------- generate_pbrl_dataset
NoArray == <<>>

InitSamplerVars ==
    /\ s_pc = "idle"
    /\ start = 0
    /\ traj = NoArray
    /\ reward = 0

NoCall == [path |-> NoPath, loaded |-> FALSE, ret |-> NoArray, made |-> FALSE]

\* an allocation with one row too many
Zeros2DExtraRow(rows, cols) == [j \in 0..rows |-> [k \in 0..(cols - 1) |-> 0]]

\* np.zeros((rows, cols), dtype=int), lines 25-26
Zeros2D(rows, cols) == [j \in 0..(rows - 1) |-> [k \in 0..(cols - 1) |-> 0]]

\* np.zeros(n), line 27
Zeros1D(n) == [j \in 0..(n - 1) |-> 0]

\* line 32: p = exp(r1) / (exp(r1) + exp(r2)), the Bradley-Terry probability
\* that trajectory 1 is preferred.  With integer reward sums the value is
\* determined by r1 - r2, and is kept as that log-odds.
BradleyTerry(ra, rb) == ra - rb

\* what the call that is returning leaves behind for the next one
ThisCall == [path |-> path, loaded |-> loaded, ret |-> ret, made |-> TRUE]

\* lines 19-27: the test of line 20 and the branch taken.  The model follows
\* a call and the call after it: the files the first leaves are what the
\* second finds.
GenerateEnter(nt, p, l, who) ==
    /\ \/ g_pc = "idle" /\ prev' = prev
       \/ g_pc = "returned" /\ ~prev.made /\ prev' = ThisCall
    /\ num_t' = nt
    /\ path' = p
    /\ len_t' = l
    /\ caller' = who
    /\ IF p # NoPath /\ PathExists(p)
       THEN /\ ret' = NpLoad(p)
            /\ loaded' = TRUE
            /\ g_pc' = "returned"
            /\ UNCHANGED <<i, t1s, t2s, ps>>
       ELSE /\ t1s' = Zeros2D(nt, l)
            /\ t2s' = Zeros2D(nt, l)
            /\ ps' = Zeros1D(nt)
            /\ i' = 0
            /\ loaded' = FALSE
            /\ g_pc' = "loop"
            /\ UNCHANGED ret
    /\ UNCHANGED <<dataset, storage, t1, r1, samplerVars, labelVars, trainVars>>

generate_pbrl_dataset ==
    \E nt \in BuildNumTs, p \in CachePaths, l \in LenTs :
        GenerateEnter(nt, p, l, "user")

\* line 166: evaluate_latent_model builds its corpus with no path; what
\* follows the call (lines 167-177) touches neither files nor arguments
evaluate_latent_model ==
    \E nt \in BuildNumTs, l \in LenTs : GenerateEnter(nt, NoPath, l, "evaluate")

\* lines 28-29: the loop goes on and calls the sampler for t1
generate_draw_t1 ==
    /\ g_pc = "loop"
    /\ i < num_t
    /\ SamplerBegin(len_t)
    /\ g_pc' = "t1"
    /\ UNCHANGED <<dataset, len_t, storage, caller, num_t, path, i, t1s, t2s, ps,
                   t1, r1, ret, loaded, prev, labelVars, trainVars>>

\* lines 29-30: t1, r1 are bound and the sampler is called for t2
generate_draw_t2 ==
    /\ g_pc = "t1"
    /\ s_pc = "returned"
    /\ t1' = traj
    /\ r1' = reward
    /\ SamplerBegin(len_t)
    /\ g_pc' = "t2"
    /\ UNCHANGED <<dataset, len_t, storage, caller, num_t, path, i, t1s, t2s, ps,
                   ret, loaded, prev, labelVars, trainVars>>

\* lines 30-35: t2, r2 are bound and row i of the three arrays is written
generate_store_pair ==
    /\ g_pc = "t2"
    /\ s_pc = "returned"
    /\ t1s' = [t1s EXCEPT ![i] = t1]
    /\ t2s' = [t2s EXCEPT ![i] = traj]
    /\ ps' = [ps EXCEPT ![i] = BradleyTerry(r1, reward)]
    /\ i' = i + 1
    /\ g_pc' = "loop"
    /\ t1' = NoArray
    /\ r1' = 0
    /\ s_pc' = "idle"
    /\ start' = 0
    /\ traj' = NoArray
    /\ reward' = 0
    /\ UNCHANGED <<dataset, len_t, storage, caller, num_t, path, ret, loaded,
                   prev, labelVars, trainVars>>

\* lines 36-38: the loop is over; save and return
generate_save_return ==
    /\ g_pc = "loop"
    /\ i >= num_t
    /\ storage' = NpSavez(path, [t1s |-> t1s, t2s |-> t2s, ps |-> ps])
    /\ ret' = [t1s |-> t1s, t2s |-> t2s, ps |-> ps]
    /\ g_pc' = "returned"
    /\ i' = 0
    /\ t1s' = NoArray
    /\ t2s' = NoArray
    /\ ps' = NoArray
    /\ UNCHANGED <<dataset, len_t, caller, num_t, path, t1, r1, loaded, prev,
                   samplerVars, labelVars, trainVars>>

InitBuildVars ==
    /\ storage = <<>>
    /\ g_pc = "idle"
    /\ caller = "user"
    /\ num_t = 0
    /\ path = NoPath
    /\ i = 0
    /\ t1s = NoArray
    /\ t2s = NoArray
    /\ ps = NoArray
    /\ t1 = NoArray
    /\ r1 = 0
    /\ ret = NoArray
    /\ loaded = FALSE
    /\ prev = NoCall

\* ------------------------------------------------- the corpus consumers
\* The observation, action and next-observation rows are opaque to the
\* program: row k of each field is kept as the field's name and k.
Observations == [k \in 0..(N - 1) |-> <<"obs", k>>]

Actions == [k \in 0..(N - 1) |-> <<"act", k>>]

NextObservations == [k \in 0..(N - 1) |-> <<"next", k>>]

\* a[idx] with an integer index array: row k of the result is a[idx[k]]
Gather(a, idx) == [k \in DOMAIN idx |-> a[idx[k]]]

\* m.flatten() of a 2-D array, row by row
Flatten(m) ==
    LET cols == IF Size(m) = 0 THEN 0 ELSE Size(m[0])
    IN [k \in 0..(Size(m) * cols - 1) |-> m[k \div cols][k % cols]]

\* np.repeat(a, n): every element n times in a row
NpRepeat(a, n) == [k \in 0..(Size(a) * n - 1) |-> a[k \div n]]

\* a[idx] = vals with an integer index array: the writes happen in order, so
\* the last write to an index stays
RECURSIVE ScatterUpTo(_, _, _, _)
ScatterUpTo(a, idx, vals, n) ==
    IF n = 0 THEN a
    ELSE [ScatterUpTo(a, idx, vals, n - 1) EXCEPT ![idx[n - 1]] = vals[n - 1]]

Scatter(a, idx, vals) == ScatterUpTo(a, idx, vals, Size(idx))

Negated(a) == [k \in DOMAIN a |-> -1 * a[k]]

\* the outcomes torch.bernoulli can draw for a Bradley-Terry probability:
\* it lies strictly between 0 and 1, so both
BernoulliOutcomes(p) == {0, 1}

\* the outcome arrays torch.bernoulli(ps_sample) can return
BernoulliDraws(ps_sample) ==
    {b \in [DOMAIN ps_sample -> {0, 1}] :
        \A j \in DOMAIN ps_sample : b[j] \in BernoulliOutcomes(ps_sample[j])}

\* a map of the outcomes that leaves out the factor 2
SignedLabelMissingFactor(b) == [j \in DOMAIN b |-> -1 + b[j]]

\* lines 72-74: the map of the outcomes {0, 1} to the labels {-1, +1}
bernoulli_trial_one_neg_one(b) == [j \in DOMAIN b |-> -1 + 2 * b[j]]

\* lines 52-53, 63
T1sIndices(smp) == Flatten(Gather(pbrl_dataset.t1s, smp))

T2sIndices(smp) == Flatten(Gather(pbrl_dataset.t2s, smp))

AllIndices(smp) == Concat(T1sIndices(smp), T2sIndices(smp))

\* lines 55-61: the reward column after the two indexed writes
RelabeledRewards(smp, b) ==
    LET repeated_mus == NpRepeat(bernoulli_trial_one_neg_one(b), len_t)
        first == Scatter(dataset.rewards, T1sIndices(smp), repeated_mus)
    IN Scatter(first, T2sIndices(smp), Negated(repeated_mus))

\* lines 49-70
label_by_trajectory_reward ==
    /\ l_pc = "idle"
    /\ \E smp \in [0..(num_t - 1) -> 0..(num_t - 1)] :
         \E b \in BernoulliDraws(Gather(pbrl_dataset.ps, smp)) :
            /\ sampled' = smp
            /\ mus' = bernoulli_trial_one_neg_one(b)
            /\ sampled_dataset' =
                 [observations |-> Gather(Observations, AllIndices(smp)),
                  actions |-> Gather(Actions, AllIndices(smp)),
                  next_observations |-> Gather(NextObservations, AllIndices(smp)),
                  rewards |-> Gather(RelabeledRewards(smp, b), AllIndices(smp)),
                  terminals |-> Gather(dataset.terminals, AllIndices(smp))]
    /\ l_pc' = "labelled"
    /\ UNCHANGED <<dataset, len_t, num_t, pbrl_dataset, latent>>
    /\ UNCHANGED <<samplerVars, trainVars>>
    /\ UNCHANGED <<storage, g_pc, caller, path, i, t1s, t2s, ps, t1, r1, ret,
                   loaded, prev>>

\* lines 109-110: np.concatenate((t1s_sample, t2s_sample), axis=1), then
\* np.concatenate of its rows
PairRows(smp) ==
    Flatten([j \in DOMAIN smp |->
                Concat(pbrl_dataset.t1s[smp[j]], pbrl_dataset.t2s[smp[j]])])

\* lines 111-113: a feature row is the observation and the action of one
\* transition
FeatureRow(k) == <<Observations[k], Actions[k]>>

\* lines 101-116
make_latent_reward_dataset ==
    /\ l_pc = "idle"
    /\ \E smp \in [0..(num_t - 1) -> 0..(num_t - 1)] :
         \E b \in BernoulliDraws(Gather(pbrl_dataset.ps, smp)) :
            /\ sampled' = smp
            /\ mus' = b
            /\ latent' = [X |-> [k \in DOMAIN PairRows(smp) |->
                                    FeatureRow(PairRows(smp)[k])],
                          mus |-> b,
                          indices |-> PairRows(smp)]
    /\ l_pc' = "featured"
    /\ UNCHANGED <<dataset, len_t, num_t, pbrl_dataset, sampled_dataset>>
    /\ UNCHANGED <<samplerVars, trainVars>>
    /\ UNCHANGED <<storage, g_pc, caller, path, i, t1s, t2s, ps, t1, r1, ret,
                   loaded, prev>>

\* line 138: model(X).view(num_t, 2, len_t, -1): the feature row that lands
\* at [j, slot, t]
ViewRow(j, slot, t) == latent.X[(j * 2 + slot) * len_t + t]

\* line 141: nn.CrossEntropyLoss takes the target as the index of the correct
\* class, here the slot of the size-2 axis whose summed reward is pushed up
CrossEntropyTarget(j) == latent.mus[j]

\* line 32 and line 115: ps[j] is the probability that trajectory 1 is
\* preferred, and the Bernoulli outcome 1 is drawn with that probability
PreferredTrajectory(j) == IF latent.mus[j] = 1 THEN 1 ELSE 2

\* The window start indices the sampler can return for this dataset.
ValidStarts(l) ==
    {s \in StartRange(N, l) :
        ~NpAny(Slice(dataset.terminals, s, s + l))}

\* The corpora generate_pbrl_dataset can return for nt pairs of length l.
Corpora(nt, l) ==
    {[t1s |-> [j \in 0..(nt - 1) |-> Arange(s1[j], s1[j] + l)],
      t2s |-> [j \in 0..(nt - 1) |-> Arange(s2[j], s2[j] + l)],
      ps |-> [j \in 0..(nt - 1) |->
                BradleyTerry(NpSum(Slice(dataset.rewards, s1[j], s1[j] + l)),
                             NpSum(Slice(dataset.rewards, s2[j], s2[j] + l)))]] :
        s1 \in [0..(nt - 1) -> ValidStarts(l)],
        s2 \in [0..(nt - 1) -> ValidStarts(l)]}

InitLabelVars ==
    /\ l_pc = "idle"
    /\ pbrl_dataset = NoArray
    /\ sampled = NoArray
    /\ mus = NoArray
    /\ sampled_dataset = NoArray
    /\ latent = NoArray

\* ------------------------------------------------------------ train_latent
\* line 146: the loss is looked at every CheckEvery epochs
CheckEvery == 50

\* the n_epochs arguments tried
NEpochs == 0..MaxEpochs

NoCkpt == [epoch |-> -1, model_state_dict |-> -1]

\* os.path.exists(model_file_path), line 122
CkptExists == ckpt # NoCkpt

\* the losses an epoch can end with: 0..MaxLoss, or NaN
NaN == -1

Losses == 0..MaxLoss \cup {NaN}

\* float('inf'), line 132
Inf == MaxLoss + 1

\* a < b on floats: false as soon as one side is NaN
FloatLess(a, b) == a # NaN /\ b # NaN /\ a < b

\* LatentRewardModel(): fresh parameters, no optimizer step behind them
FreshModel == 0

\* a test that compares the stored epoch with n_epochs itself
CheckpointCompleteOffByOne(e, ne) == e = ne

\* line 125
CheckpointComplete(e, ne) == e + 1 = ne

\* line 146
IsCheckEpoch(e) == (e + 1) % CheckEvery = 0

\* a stop test that waits one check longer
PatienceExhaustedStrict(cp, pa) == cp > pa

\* line 159
PatienceExhausted(cp, pa) == cp >= pa

\* what evaluate_latent_model leaves behind (line 148): its corpus, saved by
\* generate_pbrl_dataset under the empty path; the arrays are not followed
EvaluationArtifact == [t1s |-> NoArray, t2s |-> NoArray, ps |-> NoArray]

\* lines 119-133: the call, up to the loop.  The feature matrix of line 121
\* has the shape line 128 asserts.
train_latent ==
    /\ t_pc \in {"idle", "done"}
    /\ \E ne \in NEpochs, pa \in 0..MaxPatience :
        /\ n_epochs' = ne
        /\ patience' = pa
        /\ IF CkptExists /\ CheckpointComplete(ckpt.epoch, ne)
           THEN /\ model' = ckpt.model_state_dict
                /\ t_pc' = "done"
           ELSE /\ model' = FreshModel
                /\ t_pc' = "loop"
    /\ best_loss' = Inf
    /\ current_patience' = 0
    /\ epoch' = 0
    /\ total_loss' = 0
    /\ grad_steps' = 0
    /\ last_improve' = 0
    /\ UNCHANGED <<ckpt, dataset, len_t, samplerVars, buildVars, labelVars>>

\* lines 136-161: one epoch
train_epoch ==
    /\ t_pc = "loop"
    /\ epoch < n_epochs
    /\ model' = model + 1
    /\ grad_steps' = grad_steps + 1
    /\ IF IsCheckEpoch(epoch)
       THEN \E loss \in Losses :
            /\ total_loss' = loss
            /\ storage' = NpSavez(NoPath, EvaluationArtifact)
            /\ IF FloatLess(loss, best_loss)
               THEN /\ best_loss' = loss
                    /\ current_patience' = 0
                    /\ ckpt' = [epoch |-> epoch, model_state_dict |-> model']
                    /\ last_improve' = epoch + 1
               ELSE /\ current_patience' = current_patience + 1
                    /\ UNCHANGED <<best_loss, ckpt, last_improve>>
            /\ IF PatienceExhausted(current_patience', patience)
               THEN t_pc' = "done" /\ epoch' = epoch
               ELSE t_pc' = "loop" /\ epoch' = epoch + 1
       ELSE /\ epoch' = epoch + 1
            /\ UNCHANGED <<t_pc, total_loss, storage, best_loss, current_patience,
                           ckpt, last_improve>>
    /\ UNCHANGED <<n_epochs, patience, dataset, len_t, samplerVars, labelVars>>
    /\ UNCHANGED <<g_pc, caller, num_t, path, i, t1s, t2s, ps, t1, r1, ret,
                   loaded, prev>>

\* line 162: the range is used up
train_return ==
    /\ t_pc = "loop"
    /\ epoch >= n_epochs
    /\ t_pc' = "done"
    /\ UNCHANGED <<ckpt, n_epochs, patience, epoch, best_loss, current_patience,
                   total_loss, model, grad_steps, last_improve>>
    /\ UNCHANGED <<dataset, len_t, samplerVars, buildVars, labelVars>>

InitTrainVars ==
    /\ t_pc = "idle"
    /\ ckpt = NoCkpt
    /\ n_epochs = 0
    /\ patience = 0
    /\ epoch = 0
    /\ best_loss = Inf
    /\ current_patience = 0
    /\ total_loss = 0
    /\ model = FreshModel
    /\ grad_steps = 0
    /\ last_improve = 0

\* ------------------------------------------------------------ specifications
InitSampler ==
    /\ dataset \in Datasets
    /\ len_t \in LenTs
    /\ InitSamplerVars
    /\ InitBuildVars
    /\ InitLabelVars
    /\ InitTrainVars

NextSampler ==
    \/ get_random_trajectory_reward
    \/ SamplerStep

SpecSampler == InitSampler /\ [][NextSampler]_vars

\* The interpreter keeps executing the loop, and the random generator does
\* not avoid a start index for ever: every index that can be drawn again and
\* again is drawn eventually.
FairSpecSampler ==
    /\ SpecSampler
    /\ WF_vars(NextSampler)
    /\ \A s \in 0..(MaxN - 1) : SF_vars(sampler_redraw(s))

InitBuild ==
    /\ dataset \in IndexRewardDatasets
    /\ len_t = 1
    /\ InitSamplerVars
    /\ InitBuildVars
    /\ InitLabelVars
    /\ InitTrainVars

NextBuild ==
    \/ generate_pbrl_dataset
    \/ evaluate_latent_model
    \/ generate_draw_t1
    \/ generate_draw_t2
    \/ generate_store_pair
    \/ generate_save_return
    \/ (g_pc \in {"t1", "t2"} /\ SamplerStep)

SpecBuild == InitBuild /\ [][NextBuild]_vars

\* The consumers are handed a dataset, a corpus generate_pbrl_dataset can
\* have returned for it, and that corpus's num_t and len_t.
InitLabel ==
    /\ dataset \in IndexRewardDatasets
    /\ len_t \in LenTs
    /\ num_t \in 1..MaxNumT
    /\ pbrl_dataset \in Corpora(num_t, len_t)
    /\ l_pc = "idle"
    /\ sampled = NoArray
    /\ mus = NoArray
    /\ sampled_dataset = NoArray
    /\ latent = NoArray
    /\ InitSamplerVars
    /\ storage = <<>>
    /\ g_pc = "idle"
    /\ caller = "user"
    /\ path = NoPath
    /\ i = 0
    /\ t1s = NoArray
    /\ t2s = NoArray
    /\ ps = NoArray
    /\ t1 = NoArray
    /\ r1 = 0
    /\ ret = NoArray
    /\ loaded = FALSE
    /\ prev = NoCall
    /\ InitTrainVars

NextLabel ==
    \/ label_by_trajectory_reward
    \/ make_latent_reward_dataset

SpecLabel == InitLabel /\ [][NextLabel]_vars

\* The training loop reads the dataset through the feature matrix only;
\* one dataset stands for all.
InitTrain ==
    /\ dataset = [terminals |-> [k \in 0..1 |-> FALSE], rewards |-> [k \in 0..1 |-> k]]
    /\ len_t = 1
    /\ InitSamplerVars
    /\ InitBuildVars
    /\ InitLabelVars
    /\ InitTrainVars

NextTrain ==
    \/ train_latent
    \/ train_epoch
    \/ train_return

SpecTrain == InitTrain /\ [][NextTrain]_vars

\* ------------------------------------------------------------------- claims
\* C1: a returned trajectory is a window start, start+1, ..., start+len_t-1
\* of exactly len_t indices with 0 <= start < N - len_t, and no index of the
\* window carries a terminal flag.
C1_WindowContiguousNonTerminal ==
    s_pc = "returned" =>
        /\ DOMAIN traj = 0..(len_t - 1)
        /\ \A k \in DOMAIN traj : traj[k] = traj[0] + k
        /\ 0 <= traj[0] /\ traj[0] < N - len_t
        /\ \A k \in DOMAIN traj : ~dataset.terminals[traj[k]]

\* a window of two indices or more was returned from a dataset whose first
\* window holds a terminal
C1_Witness ==
    /\ s_pc = "returned"
    /\ len_t >= 2
    /\ dataset.terminals[0]
    /\ traj[0] > 0

\* the shape of a corpus array: rows x cols
HasShape(a, rows, cols) ==
    /\ DOMAIN a = 0..(rows - 1)
    /\ \A j \in DOMAIN a : DOMAIN a[j] = 0..(cols - 1)

\* C2 (as stated): whichever branch returns, the corpus has num_t entries and
\* every trajectory has length len_t.
C2_ReturnedShapeAlways ==
    g_pc = "returned" =>
        /\ HasShape(ret.t1s, num_t, len_t)
        /\ HasShape(ret.t2s, num_t, len_t)
        /\ DOMAIN ret.ps = 0..(num_t - 1)

\* C2 (amended): a freshly sampled corpus has num_t entries of length len_t;
\* a corpus loaded from cache_path is the stored artifact, returned as it is.
C2_FreshShapeLoadedVerbatim ==
    g_pc = "returned" =>
        /\ ~loaded =>
            /\ HasShape(ret.t1s, num_t, len_t)
            /\ HasShape(ret.t2s, num_t, len_t)
            /\ DOMAIN ret.ps = 0..(num_t - 1)
        /\ loaded =>
            /\ PathExists(path)
            /\ ret = NpLoad(path)

\* both branches: a fresh corpus of two pairs, and a second call that loaded
\* an artifact whose num_t differs from the one asked for
C2_Witness ==
    /\ g_pc = "returned"
    /\ loaded
    /\ prev.made /\ ~prev.loaded
    /\ HasShape(prev.ret.t1s, 1, 1)
    /\ ret = prev.ret
    /\ len_t = 2

\* C3: a call that follows a generating call with the same non-empty
\* cache_path loads the artifact and returns the arrays of the first call.
C3_CacheRoundTrip ==
    (/\ g_pc = "returned"
     /\ prev.made /\ ~prev.loaded
     /\ prev.path # NoPath
     /\ path = prev.path)
    => (loaded /\ ret = prev.ret)

\* C4: a step of a call with no cache path, and so every step of
\* evaluate_latent_model, leaves the stored artifacts as they are.
C4_NoPathNoWrite ==
    [][(path' = NoPath \/ caller' = "evaluate") => storage' = storage]_vars

\* the dataset index behind row k of the labelled dataset: the k-th element
\* of the trajectory-1 indices followed by the trajectory-2 indices
SourceIndex(k) ==
    LET half == num_t * len_t
        r == IF k < half THEN k ELSE k - half
        pair == sampled[r \div len_t]
    IN IF k < half THEN pbrl_dataset.t1s[pair][r % len_t]
       ELSE pbrl_dataset.t2s[pair][r % len_t]

\* C5: the labelled dataset has 2*num_t*len_t rows in every field, row k of
\* every field is the row of the same source index, and every reward is -1
\* or +1.
C5_LabelledRowsAlignedSigned ==
    l_pc = "labelled" =>
        LET rows == 0..(2 * num_t * len_t - 1)
        IN /\ DOMAIN sampled_dataset.observations = rows
           /\ DOMAIN sampled_dataset.actions = rows
           /\ DOMAIN sampled_dataset.next_observations = rows
           /\ DOMAIN sampled_dataset.rewards = rows
           /\ DOMAIN sampled_dataset.terminals = rows
           /\ \A k \in rows :
                /\ sampled_dataset.observations[k] = Observations[SourceIndex(k)]
                /\ sampled_dataset.actions[k] = Actions[SourceIndex(k)]
                /\ sampled_dataset.next_observations[k]
                     = NextObservations[SourceIndex(k)]
                /\ sampled_dataset.terminals[k] = dataset.terminals[SourceIndex(k)]
                /\ sampled_dataset.rewards[k] \in {-1, 1}

\* two different pairs were drawn, with opposite labels, and all the rows
\* came out
C5_Witness ==
    /\ l_pc = "labelled"
    /\ num_t = 2
    /\ sampled[0] # sampled[1]
    /\ mus[0] = 1 /\ mus[1] = -1
    /\ pbrl_dataset.t1s[0] # pbrl_dataset.t2s[0]
    /\ Size(sampled_dataset.rewards) = 2 * num_t * len_t

\* C6: every row of trajectory 1 of the j-th drawn pair carries the label
\* m_j, every row of its trajectory 2 carries -m_j.
C6_LabelBroadcastPerPair ==
    l_pc = "labelled" =>
        \A j \in 0..(num_t - 1), t \in 0..(len_t - 1) :
            /\ sampled_dataset.rewards[j * len_t + t] = mus[j]
            /\ sampled_dataset.rewards[num_t * len_t + j * len_t + t] = -1 * mus[j]

\* the reshape of line 138 puts trajectory 1 of the j-th drawn pair in slot 0
\* and trajectory 2 in slot 1
SlotsHoldTrajectories ==
    \A j \in 0..(num_t - 1), t \in 0..(len_t - 1) :
        /\ ViewRow(j, 0, t) = FeatureRow(pbrl_dataset.t1s[sampled[j]][t])
        /\ ViewRow(j, 1, t) = FeatureRow(pbrl_dataset.t2s[sampled[j]][t])

\* C10: the slots hold the two trajectories in order, and the class the
\* cross-entropy loss takes as correct is the slot of the preferred
\* trajectory: slot 0 when trajectory 1 is preferred, slot 1 otherwise.
C10_TargetSelectsPreferredSlot ==
    l_pc = "featured" =>
        /\ SlotsHoldTrajectories
        /\ \A j \in 0..(num_t - 1) :
              CrossEntropyTarget(j) = PreferredTrajectory(j) - 1

\* C8, the invariant: never more optimizer steps than n_epochs, and at most
\* patience * 50 of them after the last checkpointed improvement.
C8_EpochBound ==
    t_pc \in {"loop", "done"} =>
        /\ grad_steps <= n_epochs
        /\ last_improve > 0 => grad_steps - last_improve <= patience * 50

\* C8, the step: an epoch whose 1-based number is no multiple of 50 leaves
\* the counter, the best loss and the checkpoint alone and goes on; one whose
\* number is a multiple of 50 resets the counter and writes the checkpoint if
\* its loss is below the best seen, increments the counter otherwise, and
\* stops exactly if the counter has then reached patience.
C8_EpochStep ==
    (t_pc = "loop" /\ grad_steps' = grad_steps + 1) =>
        IF (grad_steps + 1) % 50 # 0
        THEN /\ current_patience' = current_patience
             /\ best_loss' = best_loss
             /\ ckpt' = ckpt
             /\ t_pc' = "loop"
        ELSE /\ IF FloatLess(total_loss', best_loss)
                THEN /\ current_patience' = 0
                     /\ ckpt' = [epoch |-> grad_steps, model_state_dict |-> model']
                ELSE /\ current_patience' = current_patience + 1
                     /\ ckpt' = ckpt
             /\ (t_pc' = "done") <=> (current_patience' >= patience)

\* C8: the loss is checked every 50 epochs only, an improvement resets the
\* patience counter and checkpoints, any other check increments it, training
\* stops at the first check where the counter reaches patience; so at most
\* patience * 50 epochs follow the last checkpointed improvement, and no more
\* than n_epochs run in all.
C8_EarlyStopping == [](C8_EpochBound) /\ [][C8_EpochStep]_vars

\* training stopped early, exactly patience * 50 epochs after its last
\* checkpoint, which was not its first
C8_Witness ==
    /\ t_pc = "done"
    /\ patience >= 1
    /\ last_improve > 50
    /\ grad_steps = last_improve + patience * 50
    /\ ckpt.epoch = last_improve - 1

\* the step of C9, taken by a call of train_latent
C9_CallStep ==
    t_pc \in {"idle", "done"} =>
        IF ckpt # NoCkpt /\ ckpt.epoch = n_epochs' - 1
        THEN /\ t_pc' = "done"
             /\ model' = ckpt.model_state_dict
             /\ grad_steps' = 0
             /\ ckpt' = ckpt
        ELSE t_pc' = "loop"

C7_SamplerTerminates == <>(s_pc = "returned")

====
